---------------------------- MODULE Spec2Model ----------------------------
(***************************************************************************)
(* Document question-answering backend (backend/app/main.py): chunking,     *)
(* indexing into the vector collection, retrieval with dedupe and ranking,  *)
(* answer post-processing, evidence excerpts and document deletion.         *)
(*                                                                          *)
(* Text is a sequence of one-character strings.  The two non-ASCII          *)
(* characters of the source are written as the tokens "bullet" (U+2022)     *)
(* and "ellipsis" (U+2026); each counts as one character, as in Python.     *)
(***************************************************************************)
EXTENDS Integers, Sequences, FiniteSets, TLC

VARIABLES
    collection,   \* the Chroma collection: a set of stored records, one per id
    uploads,      \* UPLOAD_DIR: doc_id -> content of <doc_id>.pdf, for the files on disk
    issued,       \* doc ids already in use: uuid4() returns none of them
    pc,           \* per request slot: the handler's position
    req,          \* per request slot: the handler's locals
    resp,         \* the response the last step returned, if it returned one
    nreq,         \* requests started so far
    fin,          \* the function applied on its own, with its arguments
    fout          \* what it returned

vars == <<collection, uploads, issued, pc, req, resp, nreq, fin, fout>>

\* Python's optional values: None, or a value x as Some(x)
None == <<>>

Some(x) == <<x>>

Val(o) == o[1]

-----------------------------------------------------------------------------
(* Program constants *)

CHUNK_SIZE == 1000
CHUNK_OVERLAP == 200
EXCERPT_MAX_CHARS == 260
SNIPPET_BUFFER == 40

-----------------------------------------------------------------------------
(* Python string primitives *)

Whitespace == {" ", "\t", "\n"}

Min(a, b) == IF a <= b THEN a ELSE b

Max(a, b) == IF a >= b THEN a ELSE b

Rep(c, n) == [i \in 1..n |-> c]

\* s[a:b] for 0 <= a, 0 <= b
Slice(s, a, b) == SubSeq(s, a + 1, Min(b, Len(s)))

\* the first position from i on that holds no whitespace (Len(s) + 1 if none)
SkipSpace(s, i) ==
    CHOOSE k \in i..(Len(s) + 1) :
        /\ k = Len(s) + 1 \/ s[k] \notin Whitespace
        /\ \A j \in i..(k - 1) : s[j] \in Whitespace

\* the last position up to i that holds no whitespace (0 if none)
SkipSpaceBack(s, i) ==
    CHOOSE k \in 0..i :
        /\ k = 0 \/ s[k] \notin Whitespace
        /\ \A j \in (k + 1)..i : s[j] \in Whitespace

\* str.strip()
Strip(s) == SubSeq(s, SkipSpace(s, 1), SkipSpaceBack(s, Len(s)))

\* str.rstrip()
RStrip(s) == SubSeq(s, 1, SkipSpaceBack(s, Len(s)))

\* whether pat occurs in s at 1-based position i
MatchAt(s, pat, i) ==
    /\ i + Len(pat) - 1 <= Len(s)
    /\ \A k \in 1..Len(pat) : s[i + k - 1] = pat[k]

\* pat in s
Contains(s, pat) == \E i \in 1..Len(s) : MatchAt(s, pat, i)

\* s.replace(pat, rep): non-overlapping occurrences, left to right
RECURSIVE ReplaceFrom(_, _, _, _)
ReplaceFrom(s, pat, rep, i) ==
    IF i > Len(s) THEN <<>>
    ELSE IF MatchAt(s, pat, i) THEN rep \o ReplaceFrom(s, pat, rep, i + Len(pat))
    ELSE <<s[i]>> \o ReplaceFrom(s, pat, rep, i + 1)

Replace(s, pat, rep) == ReplaceFrom(s, pat, rep, 1)

\* s.rfind(c) for a one-character c: 0-based index of the last occurrence, -1 if none
RECURSIVE RFindFrom(_, _, _)
RFindFrom(s, c, i) ==
    IF i < 1 THEN -1 ELSE IF s[i] = c THEN i - 1 ELSE RFindFrom(s, c, i - 1)

RFind(s, c) == RFindFrom(s, c, Len(s))

\* " ".join(s.split()): whitespace runs collapsed to one space, ends trimmed
RECURSIVE CollapseFrom(_, _, _)
CollapseFrom(s, i, acc) ==
    IF i > Len(s) THEN acc
    ELSE IF s[i] \in Whitespace THEN CollapseFrom(s, i + 1, acc)
    ELSE IF i > 1 /\ s[i - 1] \in Whitespace /\ acc # <<>>
         THEN CollapseFrom(s, i + 1, acc \o <<" ", s[i]>>)
    ELSE CollapseFrom(s, i + 1, Append(acc, s[i]))

SplitJoin(s) == CollapseFrom(s, 1, <<>>)

\* sep.join(parts)
RECURSIVE Join(_, _)
Join(parts, sep) ==
    IF parts = <<>> THEN <<>>
    ELSE IF Len(parts) = 1 THEN parts[1]
    ELSE parts[1] \o sep \o Join(Tail(parts), sep)

\* s.split("\n")
RECURSIVE SplitLinesFrom(_, _, _)
SplitLinesFrom(s, i, cur) ==
    IF i > Len(s) THEN <<cur>>
    ELSE IF s[i] = "\n" THEN <<cur>> \o SplitLinesFrom(s, i + 1, <<>>)
    ELSE SplitLinesFrom(s, i + 1, Append(cur, s[i]))

SplitLines(s) == SplitLinesFrom(s, 1, <<>>)

-----------------------------------------------------------------------------
(* extract_pages_from_pdf: a PDF is the sequence of what page.extract_text() *)
(* returns for each page, Some(text) or None.                                *)

extract_pages_from_pdf(pdf) ==
    [i \in 1..Len(pdf) |->
        [page |-> i, text |-> IF pdf[i] = None THEN <<>> ELSE Val(pdf[i])]]

-----------------------------------------------------------------------------
(* chunk_pages *)

\* the while loop over one page; st = [chunks, chunk_index]
RECURSIVE ChunkWindow(_, _, _, _)
ChunkWindow(text, page_number, start, st) ==
    IF start < Len(text)
    THEN LET end == start + CHUNK_SIZE
             chunk_str == Strip(Slice(text, start, end))
             st2 == IF chunk_str # <<>>
                    THEN [chunks |-> Append(st.chunks,
                                       [chunk_index |-> st.chunk_index,
                                        page |-> page_number,
                                        text |-> chunk_str]),
                          chunk_index |-> st.chunk_index + 1]
                    ELSE st
         IN  ChunkWindow(text, page_number, end - CHUNK_OVERLAP, st2)
    ELSE st

\* the for loop over the pages
RECURSIVE ChunkFrom(_, _, _)
ChunkFrom(pages, k, st) ==
    IF k > Len(pages) THEN st
    ELSE ChunkFrom(pages, k + 1,
                   ChunkWindow(pages[k].text, pages[k].page, 0, st))

chunk_pages(pages) == ChunkFrom(pages, 1, [chunks |-> <<>>, chunk_index |-> 0]).chunks

-----------------------------------------------------------------------------
(* retrieve_top_k.  Distances and similarities are in units of 1.0; a raw   *)
(* result entry is [doc, meta, dist], the zip of the three lists Chroma      *)
(* returns, each field None or Some(value).                                  *)

NResults(top_k) == Max(top_k * 3, top_k)

\* the loop that builds `retrieved`
RECURSIVE Retrieved(_)
Retrieved(raw) ==
    IF raw = <<>> THEN <<>>
    ELSE LET e == Head(raw)
             sim == IF e.dist # None THEN Some(1 - Val(e.dist)) ELSE None
             r == [text |-> Val(e.doc),
                   page |-> IF e.meta = None THEN None ELSE Some(Val(e.meta).page),
                   chunk_index |-> IF e.meta = None THEN None
                                   ELSE Some(Val(e.meta).chunk_index),
                   similarity |-> sim]
         IN  IF e.doc = None \/ Val(e.doc) = <<>>
             THEN Retrieved(Tail(raw))
             ELSE <<r>> \o Retrieved(Tail(raw))

\* the dedupe loop: first occurrence per (page, chunk_index)
RECURSIVE Dedupe(_, _)
Dedupe(retrieved, seen_keys) ==
    IF retrieved = <<>> THEN <<>>
    ELSE LET r == Head(retrieved)
             key == <<r.page, r.chunk_index>>
         IN  IF key \in seen_keys
             THEN Dedupe(Tail(retrieved), seen_keys)
             ELSE <<r>> \o Dedupe(Tail(retrieved), seen_keys \cup {key})

\* the sort key: x.get("similarity") or 0.0
SimKey(r) == IF r.similarity = None THEN 0 ELSE Val(r.similarity)

\* list.sort(key, reverse=True): stable, descending
RECURSIVE InsertDesc(_, _)
InsertDesc(sorted, r) ==
    IF sorted = <<>> THEN <<r>>
    ELSE IF SimKey(Head(sorted)) >= SimKey(r)
         THEN <<Head(sorted)>> \o InsertDesc(Tail(sorted), r)
         ELSE <<r>> \o sorted

RECURSIVE SortDesc(_, _)
SortDesc(rs, acc) ==
    IF rs = <<>> THEN acc ELSE SortDesc(Tail(rs), InsertDesc(acc, Head(rs)))

\* retrieve_top_k without the dedupe loop
RankTopKNoDedupe(raw, top_k) ==
    Slice(SortDesc(Retrieved(raw), <<>>), 0, top_k)

\* everything retrieve_top_k does with the query result
RankTopK(raw, top_k) ==
    Slice(SortDesc(Dedupe(Retrieved(raw), {}), <<>>), 0, top_k)

-----------------------------------------------------------------------------
(* trim_excerpt *)

ReplaceBullets(text) == [i \in 1..Len(text) |-> IF text[i] = "bullet" THEN " " ELSE text[i]]

\* trim_excerpt whose fallback cuts the buffered snippet instead of t[:max_chars]
trim_excerpt_window_cut(text, max_chars) ==
    IF text = <<>> THEN <<>>
    ELSE LET t == SplitJoin(ReplaceBullets(text))
             snippet == Slice(t, 0, max_chars + SNIPPET_BUFFER)
             cut == RFind(snippet, ".")
         IN  IF Len(t) <= max_chars THEN t
             ELSE IF cut = -1 \/ cut < (max_chars * 6) \div 10
                  THEN Append(RStrip(snippet), "ellipsis")
                  ELSE Append(RStrip(Slice(snippet, 0, cut + 1)), "ellipsis")

trim_excerpt(text, max_chars) ==
    IF text = <<>> THEN <<>>
    ELSE LET t == SplitJoin(ReplaceBullets(text))
             snippet == Slice(t, 0, max_chars + SNIPPET_BUFFER)
             cut == RFind(snippet, ".")
         IN  IF Len(t) <= max_chars THEN t
             ELSE IF cut = -1 \/ cut < (max_chars * 6) \div 10
                  THEN Append(RStrip(Slice(t, 0, max_chars)), "ellipsis")
                  ELSE Append(RStrip(Slice(snippet, 0, cut + 1)), "ellipsis")

-----------------------------------------------------------------------------
(* ask: the post-processing of the model's output_text *)

InlineBullet == <<" ", "-", " ">>

LineBullet == <<"\n", "-", " ">>

\* the post-processing without the list reflow
PostProcessNoReflow(output_text) ==
    Replace(Strip(output_text), <<"*", "*">>, <<>>)

PostProcess(output_text) ==
    LET a1 == Strip(output_text)
        a2 == Replace(a1, <<"*", "*">>, <<>>)
    IN  IF Contains(a2, InlineBullet) /\ ~Contains(a2, LineBullet)
        THEN Replace(a2, InlineBullet, LineBullet)
        ELSE a2

-----------------------------------------------------------------------------
(* Bounds of the model *)

\* requests the system serves in one run
MaxReq == 3

\* the doc ids, in the order uuid4() hands them out
Docs == {"d1", "d2"}

DocOrder == <<"d1", "d2">>

\* the request slots; a new request takes the lowest free one
Procs == {1, 2}

\* what extract_text() may return for a page
PageTexts == {None, Some(<<" ", "a">>)}

\* the PDFs: no text at all, one chunk on page 1, one chunk on page 2, two chunks
Pdfs == {<<None>>, <<Some(<<" ", "a">>)>>, <<None, Some(<<" ", "a">>)>>,
         <<Some(<<" ", "a">>), Some(<<" ", "a">>)>>}

\* a question is known by its cosine distance to each text (the embedding
\* model is a fixed function of the text)
StoredTexts == {Strip(Val(t)) : t \in PageTexts \ {None}}

Questions == [StoredTexts -> {0, 1}]

TopKs == {1, 2}

\* what the language model may answer
ModelOutputs == {<<"*", "*", "A", "*", "*", " ", "-", " ", "B">>}

-----------------------------------------------------------------------------
(* The Chroma collection *)

\* f"{doc_id}:{c['chunk_index']}" and the metadata of each chunk
ChunkRecords(doc_id, chunks) ==
    {[id |-> doc_id \o ":" \o ToString(chunks[i].chunk_index),
      document |-> chunks[i].text,
      doc_id |-> doc_id,
      page |-> chunks[i].page,
      chunk_index |-> chunks[i].chunk_index] : i \in 1..Len(chunks)}

DocVectors(doc_id) == {r \in collection : r.doc_id = doc_id}

\* collection.delete(where={"doc_id": doc_id})
CollectionDelete(coll, doc_id) == {r \in coll : r.doc_id # doc_id}

\* collection.add(...): a record whose id is already stored is ignored
CollectionAdd(coll, recs) == coll \cup {r \in recs : \A s \in coll : s.id # r.id}

\* collection.query(..., where={"doc_id": doc_id}): nearest first, n_results at most
RECURSIVE Nearest(_, _, _)
Nearest(recs, question, n) ==
    IF recs = {} \/ n = 0 THEN <<>>
    ELSE LET r == CHOOSE x \in recs : \A y \in recs :
                      \/ question[x.document] < question[y.document]
                      \/ /\ question[x.document] = question[y.document]
                         /\ x.chunk_index <= y.chunk_index
         IN  <<[doc |-> Some(r.document),
                meta |-> Some([doc_id |-> r.doc_id, page |-> r.page,
                               chunk_index |-> r.chunk_index]),
                dist |-> Some(question[r.document])]>>
             \o Nearest(recs \ {r}, question, n - 1)

CollectionQuery(coll, doc_id, question, n_results) ==
    Nearest({r \in coll : r.doc_id = doc_id}, question, n_results)

retrieve_top_k(coll, doc_id, question, top_k) ==
    RankTopK(CollectionQuery(coll, doc_id, question, NResults(top_k)), top_k)

-----------------------------------------------------------------------------
(* index_doc_into_chroma, up to the purge: the summary or the error *)

NoExtractableText == "No extractable text found (scanned PDF). OCR not supported in v1."

NoValidChunks == "No valid text chunks found."

IndexPlan(pdf) ==
    LET pages == extract_pages_from_pdf(pdf)
        full_text == Join([i \in 1..Len(pages) |-> pages[i].text], <<"\n">>)
        chunks == chunk_pages(pages)
    IN  IF Strip(full_text) = <<>>
        THEN [error |-> NoExtractableText, pages |-> Len(pages), chunks |-> <<>>]
        ELSE IF chunks = <<>>
        THEN [error |-> NoValidChunks, pages |-> Len(pages), chunks |-> <<>>]
        ELSE [error |-> "", pages |-> Len(pages), chunks |-> chunks]

-----------------------------------------------------------------------------
(* ask, after retrieval: llm is None when the model call fails or times out *)

\* "I don't know based on the provided document."
Fallback ==
    <<"I", " ", "d", "o", "n", "'", "t", " ", "k", "n", "o", "w", " ",
    "b", "a", "s", "e", "d", " ", "o", "n", " ", "t", "h", "e", " ", "p",
    "r", "o", "v", "i", "d", "e", "d", " ", "d", "o", "c", "u", "m", "e",
    "n", "t", ".">>

RECURSIVE Ascending(_)
Ascending(S) ==
    IF S = {} THEN <<>>
    ELSE LET m == CHOOSE x \in S : \A y \in S : x <= y
         IN  <<m>> \o Ascending(S \ {m})

Evidence(retrieved) ==
    [i \in 1..Min(2, Len(retrieved)) |->
        [page |-> retrieved[i].page,
         excerpt |-> trim_excerpt(retrieved[i].text, EXCERPT_MAX_CHARS)]]

\* ask that calls the model before it looks at what was retrieved
AskResultModelFirst(retrieved, llm) ==
    IF llm = None
    THEN [status |-> 502, error |-> "Upstream model error or timeout", answer |-> <<>>,
          sources |-> <<>>, evidence |-> <<>>, llm_called |-> TRUE,
          pages |-> 0, chunks |-> 0]
    ELSE [status |-> 200, error |-> "", answer |-> PostProcess(Val(llm)),
          sources |-> Ascending({Val(retrieved[i].page) : i \in
                          {j \in 1..Len(retrieved) : retrieved[j].page # None}}),
          evidence |-> Evidence(retrieved), llm_called |-> TRUE,
          pages |-> 0, chunks |-> 0]

AskResult(retrieved, llm) ==
    IF retrieved = <<>>
    THEN [status |-> 200, error |-> "", answer |-> Fallback, sources |-> <<>>,
          evidence |-> <<>>, llm_called |-> FALSE, pages |-> 0, chunks |-> 0]
    ELSE IF llm = None
    THEN [status |-> 502, error |-> "Upstream model error or timeout", answer |-> <<>>,
          sources |-> <<>>, evidence |-> <<>>, llm_called |-> TRUE,
          pages |-> 0, chunks |-> 0]
    ELSE [status |-> 200, error |-> "", answer |-> PostProcess(Val(llm)),
          sources |-> Ascending({Val(retrieved[i].page) : i \in
                          {j \in 1..Len(retrieved) : retrieved[j].page # None}}),
          evidence |-> Evidence(retrieved), llm_called |-> TRUE,
          pages |-> 0, chunks |-> 0]

-----------------------------------------------------------------------------
(* Requests.  Each slot of Procs runs one handler at a time; a handler's    *)
(* calls on the collection and on the upload directory are its steps, and    *)
(* what it computes between two of them belongs to the earlier step.         *)

\* a handler's locals, and the history of its call: pdf (what the call read),
\* pre (the doc's vectors when the call started), had_blob (the doc's file was
\* on disk when the call started), before (the whole collection when a call
\* that returns in its first step started) and raced (another request wrote to
\* the doc's vectors during the call)
NoReq == [op |-> "none", doc_id |-> "", pdf |-> <<>>, npages |-> 0, recs |-> {},
          pre |-> {}, had_blob |-> FALSE, before |-> {}, raced |-> FALSE,
          retrieved |-> <<>>, top_k |-> 0]

Body(status, error) ==
    [status |-> status, error |-> error, answer |-> <<>>, sources |-> <<>>,
     evidence |-> <<>>, llm_called |-> FALSE, pages |-> 0, chunks |-> 0]

NoResp == [proc |-> 0, body |-> Body(0, ""), call |-> NoReq]

Init ==
    /\ collection = {}
    /\ uploads = <<>>
    /\ issued = {}
    /\ pc = [p \in Procs |-> "idle"]
    /\ req = [p \in Procs |-> NoReq]
    /\ resp = NoResp
    /\ nreq = 0
    /\ fin = [op |-> "none"]
    /\ fout = <<>>

pure == <<fin, fout>>

CanStart(p) ==
    /\ pc[p] = "idle"
    /\ nreq < MaxReq
    /\ \A q \in Procs : q < p => pc[q] # "idle"

\* str(uuid.uuid4()): an id never handed out or used before
Uuid4(doc_id) ==
    /\ doc_id \in Docs \ issued
    /\ \A i, j \in 1..Len(DocOrder) :
           DocOrder[j] = doc_id /\ i < j => DocOrder[i] \in issued

\* the calls in flight that write to doc_id's vectors, other than p's
WritersOn(doc_id, p) ==
    {q \in Procs \ {p} : /\ pc[q] \in {"idx_purge", "idx_embed", "idx_add", "del_blob"}
                         /\ req[q].doc_id = doc_id}

\* req after slot p wrote to doc_id's vectors: p's locals become mine, and the
\* other calls in flight on doc_id have had another writer during the call
Wrote(p, doc_id, mine) ==
    [q \in Procs |->
        IF q = p THEN mine
        ELSE IF q \in WritersOn(doc_id, p) THEN [req[q] EXCEPT !.raced = TRUE]
        ELSE req[q]]

\* slot p goes on to position `to`
Goto(p, to) ==
    /\ pc' = [pc EXCEPT ![p] = to]
    /\ resp' = NoResp

\* the handler of slot p returns body; call is its locals at the return
Return(p, body, call) ==
    /\ pc' = [pc EXCEPT ![p] = "idle"]
    /\ resp' = [proc |-> p, body |-> body, call |-> call]

(* upload_and_index *)

\* the filename does not end in .pdf
UploadNotPdf(p) ==
    /\ CanStart(p)
    /\ nreq' = nreq + 1
    /\ Return(p, Body(400, "Only PDF files are supported (expected a .pdf file)."),
              [NoReq EXCEPT !.op = "upload"])
    /\ UNCHANGED <<collection, uploads, issued, req, pure>>

\* the content is over MAX_FILE_BYTES
UploadTooLarge(p, doc_id) ==
    /\ CanStart(p)
    /\ Uuid4(doc_id)
    /\ issued' = issued \cup {doc_id}
    /\ nreq' = nreq + 1
    /\ Return(p, Body(413, "File is too large. Maximum supported size is 25 MB."),
              [NoReq EXCEPT !.op = "upload", !.doc_id = doc_id])
    /\ UNCHANGED <<collection, uploads, req, pure>>

\* writing the file fails
UploadSaveFail(p, doc_id) ==
    /\ CanStart(p)
    /\ Uuid4(doc_id)
    /\ issued' = issued \cup {doc_id}
    /\ nreq' = nreq + 1
    /\ Return(p, Body(500, "Failed to save file"),
              [NoReq EXCEPT !.op = "upload", !.doc_id = doc_id])
    /\ UNCHANGED <<collection, uploads, req, pure>>

\* the file is saved as <doc_id>.pdf; index_doc_into_chroma(doc_id, saved_path) is next
UploadSave(p, doc_id, pdf) ==
    /\ CanStart(p)
    /\ Uuid4(doc_id)
    /\ issued' = issued \cup {doc_id}
    /\ nreq' = nreq + 1
    /\ uploads' = [d \in DOMAIN uploads \cup {doc_id} |->
                      IF d = doc_id THEN pdf ELSE uploads[d]]
    /\ req' = [req EXCEPT ![p] = [NoReq EXCEPT !.op = "upload", !.doc_id = doc_id]]
    /\ Goto(p, "idx_begin")
    /\ UNCHANGED <<collection, pure>>

(* index_doc_into_chroma *)

\* index_doc_into_chroma numbering its ids on from the vectors the doc already has
IndexBeginAppendIds(p, call, pdf) ==
    LET plan == IndexPlan(pdf)
        offset == Cardinality(DocVectors(call.doc_id))
        mine == [call EXCEPT !.pdf = pdf,
                             !.npages = plan.pages,
                             !.pre = DocVectors(call.doc_id),
                             !.had_blob = call.doc_id \in DOMAIN uploads,
                             !.recs = ChunkRecords(call.doc_id,
                                         [i \in 1..Len(plan.chunks) |->
                                             [plan.chunks[i] EXCEPT !.chunk_index = @ + offset]])]
    IN  /\ collection' = collection
        /\ uploads' = uploads
        /\ IF plan.error # ""
           THEN /\ req' = [req EXCEPT ![p] = NoReq]
                /\ Return(p, Body(IF call.op = "upload" THEN 400 ELSE 200, plan.error),
                          [mine EXCEPT !.before = collection])
           ELSE /\ req' = [req EXCEPT ![p] = mine]
                /\ Goto(p, "idx_purge")

\* index_doc_into_chroma purging before its content checks
IndexBeginPurgeFirst(p, call, pdf) ==
    LET plan == IndexPlan(pdf)
        mine == [call EXCEPT !.pdf = pdf,
                             !.npages = plan.pages,
                             !.pre = DocVectors(call.doc_id),
                             !.had_blob = call.doc_id \in DOMAIN uploads,
                             !.recs = ChunkRecords(call.doc_id, plan.chunks)]
    IN  /\ collection' = CollectionDelete(collection, call.doc_id)
        /\ uploads' = uploads
        /\ IF plan.error # ""
           THEN /\ req' = [req EXCEPT ![p] = NoReq]
                /\ Return(p, Body(IF call.op = "upload" THEN 400 ELSE 200, plan.error),
                          [mine EXCEPT !.before = collection])
           ELSE /\ req' = [req EXCEPT ![p] = mine]
                /\ Goto(p, "idx_purge")

\* extract, the two content checks, chunk, build ids/documents/metadatas: the
\* call returns the error, or goes on to the purge
IndexBegin(p, call, pdf) ==
    LET plan == IndexPlan(pdf)
        mine == [call EXCEPT !.pdf = pdf,
                             !.npages = plan.pages,
                             !.pre = DocVectors(call.doc_id),
                             !.had_blob = call.doc_id \in DOMAIN uploads,
                             !.recs = ChunkRecords(call.doc_id, plan.chunks)]
    IN  /\ collection' = collection
        /\ uploads' = uploads
        /\ IF plan.error # ""
           THEN /\ req' = [req EXCEPT ![p] = NoReq]
                /\ Return(p, Body(IF call.op = "upload" THEN 400 ELSE 200, plan.error),
                          [mine EXCEPT !.before = collection])
           ELSE /\ req' = [req EXCEPT ![p] = mine]
                /\ Goto(p, "idx_purge")

\* upload_and_index calls it on the saved file
IndexUploaded(p) ==
    /\ pc[p] = "idx_begin"
    /\ req[p].doc_id \in DOMAIN uploads
    /\ IndexBegin(p, req[p], uploads[req[p].doc_id])
    /\ UNCHANGED <<issued, nreq, pure>>

\* PdfReader(saved_path) raises: the file was deleted before it was read
IndexNoFile(p) ==
    /\ pc[p] = "idx_begin"
    /\ req[p].doc_id \notin DOMAIN uploads
    /\ req' = [req EXCEPT ![p] = NoReq]
    /\ Return(p, Body(500, "exception"), req[p])
    /\ UNCHANGED <<collection, uploads, issued, nreq, pure>>

\* another caller calls index_doc_into_chroma(doc_id, path) on a file that holds pdf
IndexCall(p, doc_id, pdf) ==
    /\ CanStart(p)
    /\ issued' = issued \cup {doc_id}
    /\ nreq' = nreq + 1
    /\ IndexBegin(p, [NoReq EXCEPT !.op = "index", !.doc_id = doc_id], pdf)
    /\ UNCHANGED pure

\* index_doc_into_chroma without the purge
IndexPurgeSkip(p) ==
    /\ pc[p] = "idx_purge"
    /\ collection' = collection
    /\ req' = Wrote(p, req[p].doc_id, req[p])
    /\ Goto(p, "idx_embed")
    /\ UNCHANGED <<uploads, issued, nreq, pure>>

\* collection.delete(where={"doc_id": doc_id})
IndexPurge(p) ==
    /\ pc[p] = "idx_purge"
    /\ collection' = CollectionDelete(collection, req[p].doc_id)
    /\ req' = Wrote(p, req[p].doc_id, req[p])
    /\ Goto(p, "idx_embed")
    /\ UNCHANGED <<uploads, issued, nreq, pure>>

\* embedding_model.encode(documents)
IndexEmbed(p) ==
    /\ pc[p] = "idx_embed"
    /\ Goto(p, "idx_add")
    /\ UNCHANGED <<collection, uploads, issued, req, nreq, pure>>

\* collection.add(...) and the summary
IndexAdd(p) ==
    /\ pc[p] = "idx_add"
    /\ collection' = CollectionAdd(collection, req[p].recs)
    /\ req' = Wrote(p, req[p].doc_id, NoReq)
    /\ Return(p, [Body(200, "") EXCEPT !.pages = req[p].npages,
                                       !.chunks = Cardinality(req[p].recs)], req[p])
    /\ UNCHANGED <<uploads, issued, nreq, pure>>

\* collection.add(...) raises; nothing of the batch is stored
IndexAddFail(p) ==
    /\ pc[p] = "idx_add"
    /\ req' = [req EXCEPT ![p] = NoReq]
    /\ Return(p, Body(500, "exception"), req[p])
    /\ UNCHANGED <<collection, uploads, issued, nreq, pure>>

(* delete_doc *)

\* delete_doc purging the vectors only when the file is there
DeletePurgeIfBlob(p, doc_id) ==
    /\ CanStart(p)
    /\ nreq' = nreq + 1
    /\ collection' = IF doc_id \in DOMAIN uploads
                     THEN CollectionDelete(collection, doc_id) ELSE collection
    /\ req' = Wrote(p, doc_id, [NoReq EXCEPT !.op = "delete", !.doc_id = doc_id,
                                             !.pre = DocVectors(doc_id),
                                             !.had_blob = doc_id \in DOMAIN uploads])
    /\ issued' = issued \cup {doc_id}
    /\ Goto(p, "del_blob")
    /\ UNCHANGED <<uploads, pure>>

\* collection.delete(where={"doc_id": doc_id})
DeletePurge(p, doc_id) ==
    /\ CanStart(p)
    /\ nreq' = nreq + 1
    /\ collection' = CollectionDelete(collection, doc_id)
    /\ req' = Wrote(p, doc_id, [NoReq EXCEPT !.op = "delete", !.doc_id = doc_id,
                                             !.pre = DocVectors(doc_id),
                                             !.had_blob = doc_id \in DOMAIN uploads])
    /\ issued' = issued \cup {doc_id}
    /\ Goto(p, "del_blob")
    /\ UNCHANGED <<uploads, pure>>

\* os.path.exists(pdf_path) is false
DeleteNoBlob(p) ==
    /\ pc[p] = "del_blob"
    /\ req[p].doc_id \notin DOMAIN uploads
    /\ req' = [req EXCEPT ![p] = NoReq]
    /\ Return(p, Body(200, ""), req[p])
    /\ UNCHANGED <<collection, uploads, issued, nreq, pure>>

\* os.remove(pdf_path)
DeleteBlob(p) ==
    /\ pc[p] = "del_blob"
    /\ req[p].doc_id \in DOMAIN uploads
    /\ uploads' = [d \in DOMAIN uploads \ {req[p].doc_id} |-> uploads[d]]
    /\ req' = [req EXCEPT ![p] = NoReq]
    /\ Return(p, Body(200, ""), req[p])
    /\ UNCHANGED <<collection, issued, nreq, pure>>

\* os.remove(pdf_path) raises
DeleteBlobFail(p) ==
    /\ pc[p] = "del_blob"
    /\ req[p].doc_id \in DOMAIN uploads
    /\ req' = [req EXCEPT ![p] = NoReq]
    /\ Return(p, Body(500, "Failed to delete PDF"), req[p])
    /\ UNCHANGED <<collection, uploads, issued, nreq, pure>>

(* ask: it only reads the collection, in the one query of retrieve_top_k *)

Ask(p, doc_id, question, top_k, llm) ==
    /\ CanStart(p)
    /\ nreq' = nreq + 1
    /\ LET retrieved == retrieve_top_k(collection, doc_id, question, top_k)
       IN  Return(p, AskResult(retrieved, llm),
                  [NoReq EXCEPT !.op = "ask", !.doc_id = doc_id,
                                !.pre = DocVectors(doc_id),
                                !.retrieved = retrieved, !.top_k = top_k])
    /\ issued' = issued \cup {doc_id}
    /\ UNCHANGED <<collection, uploads, req, pure>>

Next ==
    \/ \E p \in Procs : UploadNotPdf(p)
    \/ \E p \in Procs, d \in Docs : UploadTooLarge(p, d)
    \/ \E p \in Procs, d \in Docs : UploadSaveFail(p, d)
    \/ \E p \in Procs, d \in Docs, pdf \in Pdfs : UploadSave(p, d, pdf)
    \/ \E p \in Procs : IndexUploaded(p)
    \/ \E p \in Procs : IndexNoFile(p)
    \/ \E p \in Procs, d \in Docs, pdf \in Pdfs : IndexCall(p, d, pdf)
    \/ \E p \in Procs : IndexPurge(p)
    \/ \E p \in Procs : IndexEmbed(p)
    \/ \E p \in Procs : IndexAdd(p)
    \/ \E p \in Procs : IndexAddFail(p)
    \/ \E p \in Procs, d \in Docs : DeletePurge(p, d)
    \/ \E p \in Procs : DeleteNoBlob(p)
    \/ \E p \in Procs : DeleteBlob(p)
    \/ \E p \in Procs : DeleteBlobFail(p)
    \/ \E p \in Procs, d \in Docs, q \in Questions, k \in TopKs,
          llm \in {None} \cup {Some(o) : o \in ModelOutputs} : Ask(p, d, q, k, llm)

Spec == Init /\ [][Next]_vars

-----------------------------------------------------------------------------
(* What the last step returned *)

IndexReturned == resp.call.op \in {"index", "upload"} /\ resp.call.recs # {}

\* the chunk set index_doc_into_chroma(doc_id, path) is to store for pdf
ChunkSet(doc_id, pdf) ==
    LET chunks == chunk_pages(extract_pages_from_pdf(pdf))
    IN  {[id |-> doc_id \o ":" \o ToString(i - 1),
          document |-> chunks[i].text,
          doc_id |-> doc_id,
          page |-> chunks[i].page,
          chunk_index |-> i - 1] : i \in 1..Len(chunks)}

-----------------------------------------------------------------------------
(* The functions on their own: each specification applies one function once *)
(* to arguments drawn from a bounded set, the system at rest.                *)

system == <<collection, uploads, issued, pc, req, resp, nreq>>

(* chunk_pages *)

MaxBlocks == 12

\* run lengths: multiples of half the overlap, and one more
Block == CHUNK_OVERLAP \div 2

RunLens == {k * Block + e : k \in 0..MaxBlocks, e \in {0, 1}}

\* a page: spaces, text, spaces
LongTexts ==
    {Rep(" ", l) \o Rep("a", b) \o Rep(" ", t) :
        l \in {0, 1, Block}, b \in RunLens, t \in {0, 1, Block}}

ChunkPdfs == {<<Some(t)>> : t \in LongTexts} \cup {<<Some(<<"a">>), Some(t)>> : t \in LongTexts}

ApplyChunk(pdf) ==
    /\ fin' = [op |-> "chunk_pages", pdf |-> pdf]
    /\ fout' = chunk_pages(extract_pages_from_pdf(pdf))
    /\ UNCHANGED system

NextChunk == fin.op = "none" /\ \E pdf \in ChunkPdfs : ApplyChunk(pdf)

SpecChunk == Init /\ [][NextChunk]_vars

(* retrieve_top_k on a raw query result *)

MaxRaw == 3
MaxTopK == 2

RawEntries ==
    [doc : {Some(<<>>), Some(<<"x">>)},
     meta : {None} \cup {Some([doc_id |-> "d1", page |-> 1, chunk_index |-> c]) : c \in {0, 1}},
     dist : {None, Some(0), Some(1), Some(2)}]

RawResults == UNION {[1..n -> RawEntries] : n \in 0..MaxRaw}

ApplyRank(raw, top_k) ==
    /\ Len(raw) <= NResults(top_k)
    /\ fin' = [op |-> "retrieve_top_k", raw |-> raw, top_k |-> top_k]
    /\ fout' = RankTopK(raw, top_k)
    /\ UNCHANGED system

NextRank ==
    fin.op = "none" /\ \E raw \in RawResults, top_k \in 1..MaxTopK : ApplyRank(raw, top_k)

SpecRank == Init /\ [][NextRank]_vars

(* trim_excerpt *)

MaxLead == 44
MaxTail == 3
MaxChars == 3

ExcerptTexts ==
    {Rep(c1, n1) \o mid \o Rep(c3, n3) :
        c1 \in {"a", " "}, n1 \in 0..MaxLead,
        mid \in {<<>>, <<".">>, <<"bullet">>, <<".", " ">>},
        c3 \in {"a", "."}, n3 \in 0..MaxTail}

ApplyTrim(text, max_chars) ==
    /\ fin' = [op |-> "trim_excerpt", text |-> text, max_chars |-> max_chars]
    /\ fout' = trim_excerpt(text, max_chars)
    /\ UNCHANGED system

NextTrim ==
    fin.op = "none" /\ \E text \in ExcerptTexts, max_chars \in 0..MaxChars : ApplyTrim(text, max_chars)

SpecTrim == Init /\ [][NextTrim]_vars

(* the post-processing of ask *)

MaxItems == 3

Words == {<<"A">>, <<"B", "c">>, <<"*", "*", "D", "*", "*">>}

ItemLists == UNION {[1..n -> Words] : n \in 2..MaxItems}

\* the model's output: an optional leading bullet, the items joined by sep,
\* trailing whitespace
ApplyPostProcess(items, lead, sep, pad) ==
    /\ fin' = [op |-> "post_process", items |-> items, lead |-> lead, sep |-> sep,
               output_text |-> lead \o Join(items, sep) \o pad]
    /\ fout' = PostProcess(lead \o Join(items, sep) \o pad)
    /\ UNCHANGED system

NextPostProcess ==
    fin.op = "none" /\
    \E items \in ItemLists, lead \in {<<>>, <<"-", " ">>},
       sep \in {InlineBullet, LineBullet}, pad \in {<<>>, <<" ">>, <<"\n">>} :
        ApplyPostProcess(items, lead, sep, pad)

SpecPostProcess == Init /\ [][NextPostProcess]_vars

-----------------------------------------------------------------------------
(* Properties.  resp holds what the last step returned, so a property of    *)
(* the state in which resp is a handler's response is a property of the      *)
(* state that handler left.                                                  *)

IndexSucceeded == IndexReturned /\ resp.body.status = 200

\* the chunk sets of the PDFs, for a doc
CompleteSets(doc_id) == {ChunkSet(doc_id, pdf) : pdf \in Pdfs}

\* C1: an index call that finds the doc's vectors to be exactly the chunk set
\* of the content it indexes (the state a first run of the same content left),
\* and runs with no other writer on the doc, leaves exactly that set again:
\* the ids doc_id:0..n-1, n vectors, n the count it reports.
ReindexIdempotent ==
    (/\ IndexSucceeded
     /\ ~resp.call.raced
     /\ resp.call.pre = ChunkSet(resp.call.doc_id, resp.call.pdf))
    => /\ DocVectors(resp.call.doc_id) = resp.call.pre
       /\ {r.id : r \in DocVectors(resp.call.doc_id)} =
             {resp.call.doc_id \o ":" \o ToString(i) : i \in 0..(resp.body.chunks - 1)}
       /\ Cardinality(DocVectors(resp.call.doc_id)) = resp.body.chunks

ReindexIdempotentWitness ==
    /\ IndexSucceeded
    /\ ~resp.call.raced
    /\ resp.call.pre = ChunkSet(resp.call.doc_id, resp.call.pdf)
    /\ Cardinality(DocVectors(resp.call.doc_id)) = 2

\* C3: an ask whose retrieval is empty, as it is whenever the doc has no
\* vectors, answers the fallback sentence with no sources and no evidence,
\* and never calls the language model.
NoEvidenceFallback ==
    resp.call.op = "ask"
    => /\ resp.call.pre = {} => resp.call.retrieved = <<>>
       /\ resp.call.retrieved = <<>>
          => /\ resp.body.status = 200
             /\ resp.body.answer = Fallback
             /\ resp.body.sources = <<>>
             /\ resp.body.evidence = <<>>
             /\ ~resp.body.llm_called

NoEvidenceFallbackWitness ==
    /\ resp.call.op = "ask"
    /\ resp.call.retrieved = <<>>
    /\ collection # {}

\* C4: an index call that fails on its content (no extractable text, no valid
\* chunks) leaves the collection as it was when the call started, and
\* upload_and_index then reports 400 with the uploaded file still on disk.
ContentFailureKeepsState ==
    (/\ resp.call.op \in {"index", "upload"}
     /\ resp.body.error \in {NoExtractableText, NoValidChunks})
    => /\ collection = resp.call.before
       /\ resp.call.op = "upload"
          => /\ resp.body.status = 400
             /\ resp.call.doc_id \in DOMAIN uploads
             /\ uploads[resp.call.doc_id] = resp.call.pdf

ContentFailureWitness ==
    /\ resp.call.op = "upload"
    /\ resp.body.error = NoExtractableText
    /\ collection # {}

\* C5 as stated: delete_doc, with no other writer on the doc, always reports
\* success and leaves neither vectors nor file for the doc.
DeleteAlwaysSucceeds ==
    (resp.call.op = "delete" /\ ~resp.call.raced)
    => /\ resp.body.status = 200
       /\ DocVectors(resp.call.doc_id) = {}
       /\ resp.call.doc_id \notin DOMAIN uploads

\* C5 as amended: delete_doc purges the vectors before it touches the file and
\* whether or not the file exists; with no other writer on the doc it leaves
\* no vectors; it reports success and leaves no file unless removing an
\* existing file raises, and then it reports a 500 error with the file left;
\* on a doc with neither vectors nor file it reports success and changes
\* nothing.
DeleteIdempotent ==
    /\ \A p \in Procs :
          (pc[p] = "del_blob" /\ ~req[p].raced) => DocVectors(req[p].doc_id) = {}
    /\ (resp.call.op = "delete" /\ ~resp.call.raced)
       => /\ DocVectors(resp.call.doc_id) = {}
          /\ resp.body.status \in {200, 500}
          /\ resp.body.status = 200 => resp.call.doc_id \notin DOMAIN uploads
          /\ resp.body.status = 500
             => resp.call.had_blob /\ resp.call.doc_id \in DOMAIN uploads
          /\ ~resp.call.had_blob => resp.body.status = 200

DeleteIdempotentWitness ==
    /\ resp.call.op = "delete"
    /\ ~resp.call.raced
    /\ resp.body.status = 200
    /\ resp.call.pre # {}
    /\ resp.call.had_blob
    /\ DocVectors(resp.call.doc_id) = {}
    /\ resp.call.doc_id \notin DOMAIN uploads

\* C6: an index call whose collection.add fails, with no other writer on the
\* doc, leaves for the doc either the complete chunk set it was inserting or
\* exactly the vectors that were there before the call.
FailedUpsertLeavesNoPartial ==
    (IndexReturned /\ resp.body.status = 500 /\ ~resp.call.raced)
    => DocVectors(resp.call.doc_id) \in
          {ChunkSet(resp.call.doc_id, resp.call.pdf), resp.call.pre}

\* C10: an index call that succeeds with no other writer on the doc between
\* its start and its end leaves exactly the chunk set of its content; calls
\* that interleave on one doc can leave a set that is no content's chunk set
\* (the witness: a later call finds such a set).
SerializedReindexExact ==
    (IndexSucceeded /\ ~resp.call.raced)
    => DocVectors(resp.call.doc_id) = ChunkSet(resp.call.doc_id, resp.call.pdf)

RacedReindexMixedWitness ==
    /\ IndexSucceeded
    /\ ~resp.call.raced
    /\ resp.call.pre # {}
    /\ resp.call.pre \notin CompleteSets(resp.call.doc_id)
    /\ DocVectors(resp.call.doc_id) = ChunkSet(resp.call.doc_id, resp.call.pdf)

\* C2: whatever the raw result list, retrieve_top_k returns at most top_k
\* entries, no two of them with the same (page, chunk_index), in
\* non-increasing similarity, an entry without a similarity counting as 0.0.
DedupRankLaw ==
    fin.op = "retrieve_top_k"
    => LET sim(i) == IF fout[i].similarity = <<>> THEN 0 ELSE fout[i].similarity[1]
       IN  /\ Len(fout) <= fin.top_k
           /\ \A i, j \in 1..Len(fout) :
                 i < j => /\ <<fout[i].page, fout[i].chunk_index>> #
                             <<fout[j].page, fout[j].chunk_index>>
                          /\ sim(i) >= sim(j)

DedupRankWitness ==
    /\ fin.op = "retrieve_top_k"
    /\ Len(fin.raw) = MaxRaw
    /\ \E i, j \in 1..Len(fin.raw) :
          /\ i < j
          /\ fin.raw[i].meta = fin.raw[j].meta
          /\ fin.raw[i].doc # Some(<<>>)
          /\ fin.raw[j].doc # Some(<<>>)
    /\ \E i \in 1..Len(fin.raw) : fin.raw[i].doc = Some(<<>>)
    /\ Len(fout) = 1
    /\ fin.top_k > 1

\* C7: a page whose raw text is shorter than CHUNK_SIZE gets exactly one chunk
\* if its trimmed text is non-empty, and none otherwise.
ShortPageOneChunk ==
    fin.op = "chunk_pages"
    => \A k \in 1..Len(fin.pdf) :
          LET text == IF fin.pdf[k] = None THEN <<>> ELSE Val(fin.pdf[k])
              n == Cardinality({i \in 1..Len(fout) : fout[i].page = k})
          IN  Len(text) < CHUNK_SIZE
              => n = IF \E i \in 1..Len(text) : text[i] \notin Whitespace THEN 1 ELSE 0

\* the look-ahead window of trim_excerpt has no sentence end at or after 60%
\* of max_chars, so the excerpt is the hard cut
HardCut(t, max_chars) ==
    ~\E i \in 1..Min(Len(t), max_chars + SNIPPET_BUFFER) :
        t[i] = "." /\ i - 1 >= (max_chars * 6) \div 10

\* C8 as stated: the excerpt is at most max_chars plus 5 characters long.
ExcerptBoundFive ==
    fin.op = "trim_excerpt" => Len(fout) <= fin.max_chars + 5

\* C8 as amended: for max_chars >= 0 the excerpt is at most max_chars plus 41
\* characters long (the 40-character look-ahead for a sentence end, and the
\* ellipsis), at most max_chars plus 1 in the hard-truncate case, and a text
\* whose collapsed form fits in max_chars comes back collapsed, no ellipsis.
ExcerptBound ==
    fin.op = "trim_excerpt"
    => LET t == SplitJoin(ReplaceBullets(fin.text))
       IN  /\ Len(fout) <= fin.max_chars + SNIPPET_BUFFER + 1
           /\ Len(t) <= fin.max_chars => fout = t
           /\ (Len(t) > fin.max_chars /\ HardCut(t, fin.max_chars))
              => Len(fout) <= fin.max_chars + 1

ExcerptBoundWitness ==
    /\ fin.op = "trim_excerpt"
    /\ fin.max_chars > 0
    /\ Len(fout) = fin.max_chars + SNIPPET_BUFFER + 1

\* an item as the post-processing leaves it: the bold markers gone
Unbold(item) == SelectSeq(item, LAMBDA c : c # "*")

\* C9 as stated: n >= 2 items joined inline by " - ", no newline-prefixed
\* bullet, come out as n lines, each starting with "- ".
ReflowAllBulleted ==
    (fin.op = "post_process" /\ fin.sep = InlineBullet /\ fin.lead = <<>>)
    => LET lines == SplitLines(fout)
       IN  /\ Len(lines) = Len(fin.items)
           /\ \A i \in 1..Len(lines) :
                 Len(lines[i]) >= 2 /\ SubSeq(lines[i], 1, 2) = <<"-", " ">>

\* C9 as amended: n >= 2 items joined inline by " - ", no newline-prefixed
\* bullet, come out as n lines, one per item; every line after the first
\* starts with "- "; the first line starts as the output did, with "- " only
\* if the output began with it.
ReflowLines ==
    (fin.op = "post_process" /\ fin.sep = InlineBullet)
    => LET lines == SplitLines(fout)
       IN  /\ Len(lines) = Len(fin.items)
           /\ lines[1] = fin.lead \o Unbold(fin.items[1])
           /\ \A i \in 2..Len(lines) :
                 lines[i] = <<"-", " ">> \o Unbold(fin.items[i])

ReflowLinesWitness ==
    /\ fin.op = "post_process"
    /\ fin.sep = InlineBullet
    /\ fin.lead = <<>>
    /\ Len(fin.items) = MaxItems
    /\ Len(SplitLines(fout)) = MaxItems
    /\ Head(fout) # "-"

=============================================================================
